---- MODULE Spec2Model ----
(***************************************************************************)
(* TM project task filter (src/app.py): one click on "Filter Tasks" runs   *)
(* main(), which validates the form, lists the project's tasks, fetches     *)
(* every task's detail under an asyncio.Semaphore(10), keeps the tasks      *)
(* whose lastUpdated date lies in [from_date, to_date] and shows them.      *)
(*                                                                          *)
(* The event loop is modelled at the granularity of its suspension points:  *)
(* each action is what one coroutine does between two awaits that suspend.  *)
(***************************************************************************)
EXTENDS Integers, Sequences, FiniteSets, TLC

(***************************************************************************)
(* Bounds of the model.                                                     *)
(***************************************************************************)
\* number of listed tasks when every kind of upstream answer is explored
MaxTasks == 2
\* number of listed tasks when the limiter is exercised (more than its slots)
WideTasks == 12
\* calendar dates are the days 1..MaxDay
MaxDay == 3

\* asyncio.Semaphore(10)
SemaphoreSlots == 10

Days == 1..MaxDay

(***************************************************************************)
(* Text of the "Project ID" input and int(project_id).                      *)
(***************************************************************************)
Digits == {"0", "1", "2", "3", "4", "5", "6", "7", "8", "9"}

DigitValue(c) ==
    CASE c = "0" -> 0 [] c = "1" -> 1 [] c = "2" -> 2 [] c = "3" -> 3
      [] c = "4" -> 4 [] c = "5" -> 5 [] c = "6" -> 6 [] c = "7" -> 7
      [] c = "8" -> 8 [] c = "9" -> 9

ProjectIdInputs ==
    { <<"2", "4", "2", "2", "9">>, <<"a", "b", "c">>, <<"7", "x">>, <<>> }

\* int(text) succeeds: an optional sign, then one digit or more
IsIntText(text) ==
    LET body == IF Len(text) > 0 /\ text[1] \in {"+", "-"} THEN Tail(text) ELSE text
    IN  Len(body) > 0 /\ \A k \in 1..Len(body) : body[k] \in Digits

RECURSIVE DigitsValue(_)
DigitsValue(body) ==
    IF body = <<>> THEN 0
    ELSE 10 * DigitsValue(SubSeq(body, 1, Len(body) - 1)) + DigitValue(body[Len(body)])

IntOfText(text) ==
    IF text[1] = "-" THEN 0 - DigitsValue(Tail(text))
    ELSE IF text[1] = "+" THEN DigitsValue(Tail(text))
    ELSE DigitsValue(text)

(***************************************************************************)
(* Timestamp strings.  A date_string is modelled by its syntax: the shape   *)
(* of the text, its date, its clock "HH:MM:SS.ffffff", its numeric UTC      *)
(* offset ("" when the text has none) and the number of trailing "Z".       *)
(***************************************************************************)
Clocks == {"00:00:00.000000", "23:59:59.999999"}
Offsets == {"+05:30", "-05:00"}

ClockSeconds(clock) == IF clock = "00:00:00.000000" THEN 0 ELSE 86399
ClockMicros(clock) == IF clock = "00:00:00.000000" THEN 0 ELSE 999999
OffsetSeconds(offset) ==
    CASE offset = "+05:30" -> 19800
      [] offset = "-05:00" -> 0 - 18000
      [] OTHER -> 0

EmptyString == [shape |-> "empty", date |-> 0, clock |-> "", offset |-> "", zs |-> 0]
Garbage == [shape |-> "garbage", date |-> 0, clock |-> "", offset |-> "", zs |-> 0]
Iso(d, c, o, z) == [shape |-> "iso", date |-> d, clock |-> c, offset |-> o, zs |-> z]

\* str.rstrip('Z')
RStripZ(s) == [s EXCEPT !.zs = 0]

\* datetime.strptime(s, "%Y-%m-%dT%H:%M:%S.%f%z"): %z takes a numeric offset or
\* the single letter Z, and nothing may follow it
Strptime(s) ==
    IF /\ s.shape = "iso"
       /\ \/ s.offset # "" /\ s.zs = 0
          \/ s.offset = "" /\ s.zs = 1
    THEN [ok |-> TRUE, date |-> s.date, seconds |-> ClockSeconds(s.clock),
          micros |-> ClockMicros(s.clock), utcoffset |-> OffsetSeconds(s.offset)]
    ELSE [ok |-> FALSE, date |-> 0, seconds |-> 0, micros |-> 0, utcoffset |-> 0]

\* parse_datetime: "none" for an empty string, "raise" when strptime raises
\* ValueError, else the timezone-aware datetime
parse_datetime(date_string) ==
    IF date_string.shape = "empty" THEN [kind |-> "none"]
    ELSE LET dt == Strptime(RStripZ(date_string))
         IN  IF dt.ok THEN [kind |-> "datetime", dt |-> dt]
             ELSE [kind |-> "raise"]

\* variant of DateOf: the date after a conversion to UTC
DateOfUtc(dt) == dt.date + ((dt.seconds - dt.utcoffset) \div 86400)

\* datetime.date(): the date fields of the datetime, in its own offset
DateOf(dt) == dt.date

(***************************************************************************)
(* Upstream answers.  A response has a status ("ok": a success status with  *)
(* a JSON body; "error": a network error or a non-success status) and a     *)
(* body, a JSON object given by the keys it has and their values.           *)
(***************************************************************************)
DetailKeys == {"taskId", "projectId", "taskStatus", "lastUpdated", "taskHistory"}

HistoryEntry == [keys |-> {"actionBy"}, actionBy |-> "alice"]

\* the timestamps the upstream answers with: both ends of every day, a text
\* with an offset and a trailing Z, a text ending in Z with no offset, a text
\* that is no timestamp, and the empty string
DateStrings ==
    { Iso(d, "00:00:00.000000", "+05:30", 0) : d \in Days }
      \cup { Iso(d, "23:59:59.999999", "-05:00", 0) : d \in Days }
      \cup { Iso(2, "00:00:00.000000", "+05:30", 1),
             Iso(2, "00:00:00.000000", "", 1),
             Garbage, EmptyString }

\* what varies from one answer to the next
Answers ==
    { [status |-> "error", keys |-> {}, lastUpdated |-> EmptyString, taskHistory |-> <<>>],
      [status |-> "ok", keys |-> {}, lastUpdated |-> EmptyString, taskHistory |-> <<>>] }
      \cup { [status |-> "ok", keys |-> DetailKeys, lastUpdated |-> s,
              taskHistory |-> <<HistoryEntry>>] : s \in DateStrings }

Entry(name) == [keys |-> {"actionBy"}, actionBy |-> name]

\* answers with a timestamp of day 2 that differ in the fields they have: no
\* taskHistory, an empty one, one of two entries, one whose first entry has no
\* actionBy, and each of the other fields missing
FieldAnswers ==
    { [status |-> "ok", keys |-> DetailKeys \ {"taskHistory"},
       lastUpdated |-> Iso(2, "00:00:00.000000", "+05:30", 0), taskHistory |-> <<>>] }
      \cup { [status |-> "ok", keys |-> DetailKeys,
               lastUpdated |-> Iso(2, "00:00:00.000000", "+05:30", 0), taskHistory |-> h] :
               h \in { <<>>, <<Entry("bob"), Entry("alice")>>,
                        <<[keys |-> {}, actionBy |-> ""]>> } }
      \cup { [status |-> "ok", keys |-> DetailKeys \ {k},
               lastUpdated |-> Iso(2, "00:00:00.000000", "+05:30", 0),
               taskHistory |-> <<HistoryEntry>>] :
               k \in {"lastUpdated", "taskId", "projectId", "taskStatus"} }

\* the answers of the runs that exercise the limiter
OddAnswer ==
    [status |-> "ok", keys |-> DetailKeys, lastUpdated |-> Iso(2, "00:00:00.000000", "", 1),
     taskHistory |-> <<HistoryEntry>>]

GoodAnswer ==
    [status |-> "ok", keys |-> DetailKeys,
     lastUpdated |-> Iso(2, "00:00:00.000000", "+05:30", 0),
     taskHistory |-> <<HistoryEntry>>]

\* the response of GET .../projects/{project}/tasks/{task_id}/
DetailResponse(project, task_id, a) ==
    [status |-> a.status,
     body |-> [keys |-> a.keys, taskId |-> task_id, projectId |-> project,
               taskStatus |-> "MAPPED", lastUpdated |-> a.lastUpdated,
               taskHistory |-> a.taskHistory]]

\* a request on a closed session, or whose connection was closed under it
FailedResponse == DetailResponse(0, 0, [status |-> "error", keys |-> {},
                                        lastUpdated |-> EmptyString, taskHistory |-> <<>>])

\* JSON bodies of a listing that are no feature collection: null (or {}), an
\* object without "features", and a collection one feature of which has no
\* properties.taskId
MalformedListings == {"null", "object", "feature"}

\* the response of GET .../projects/{project}/tasks/: its status, the kind of
\* its JSON body and, for a feature collection, the task ids of its features
ListResponses(n) ==
    { [status |-> "error", json |-> "none", features |-> <<>>] }
      \cup { [status |-> "ok", json |-> "collection", features |-> [i \in 1..k |-> i]] :
               k \in 0..n }
      \cup { [status |-> "ok", json |-> j, features |-> <<>>] : j \in MalformedListings }

WideListResponses ==
    { [status |-> "error", json |-> "none", features |-> <<>>],
      [status |-> "ok", json |-> "collection", features |-> [i \in 1..WideTasks |-> i]] }

(***************************************************************************)
(* fetch_task_details and the body of process_task after the fetch.         *)
(***************************************************************************)
\* None: it has no key
NoDetail == [kind |-> "none", body |-> FailedResponse.body]

\* fetch_task_details: the JSON body, or None on any exception
fetch_task_details(response) ==
    IF response.status = "ok" THEN [kind |-> "json", body |-> response.body]
    ELSE NoDetail

\* variant of Truthy: the test "if task_details" is left out
TruthyAlways(details) == TRUE

\* truth value of task_details: None and {} are false
Truthy(details) == details.kind = "json" /\ details.body.keys # {}

\* variant of LastUpdatedBy: the last entry of the history is read
LastUpdatedByLatest(body) ==
    IF "taskHistory" \in body.keys /\ Len(body.taskHistory) > 0
    THEN IF "actionBy" \in body.taskHistory[Len(body.taskHistory)].keys
         THEN [kind |-> "value",
               value |-> body.taskHistory[Len(body.taskHistory)].actionBy]
         ELSE [kind |-> "raise"]
    ELSE [kind |-> "value", value |-> ""]

\* the expression of 'lastUpdatedBy'
LastUpdatedBy(body) ==
    IF "taskHistory" \in body.keys /\ Len(body.taskHistory) > 0
    THEN IF "actionBy" \in body.taskHistory[1].keys
         THEN [kind |-> "value", value |-> body.taskHistory[1].actionBy]
         ELSE [kind |-> "raise"]
    ELSE [kind |-> "value", value |-> ""]

InRange(from, d, to) == from <= d /\ d <= to

\* lines 53-65: what process_task returns (a record, or None) or that it raises
TaskOutcome(details, from, to) ==
    IF ~Truthy(details) THEN [kind |-> "none"]
    ELSE IF "lastUpdated" \notin details.body.keys THEN [kind |-> "raise"]
    ELSE LET b == details.body
             last_updated == parse_datetime(b.lastUpdated)
         IN  IF last_updated.kind = "raise" THEN [kind |-> "raise"]
             ELSE IF last_updated.kind = "none" THEN [kind |-> "none"]
             ELSE IF ~InRange(from, DateOf(last_updated.dt), to) THEN [kind |-> "none"]
             ELSE IF ~({"taskId", "projectId", "taskStatus"} \subseteq b.keys)
                  THEN [kind |-> "raise"]
             ELSE IF LastUpdatedBy(b).kind = "raise" THEN [kind |-> "raise"]
             ELSE [kind |-> "record",
                   rec |-> [taskId |-> b.taskId, projectId |-> b.projectId,
                            taskStatus |-> b.taskStatus, lastUpdated |-> b.lastUpdated,
                            lastUpdatedBy |-> LastUpdatedBy(b).value]]

(***************************************************************************)
(* State.                                                                   *)
(***************************************************************************)
VARIABLES
    project_id,     \* text of the "Project ID" input
    from_date,      \* "From Date"
    to_date,        \* "To Date"
    listResponse,   \* what the upstream answers to the listing request
    upstream,       \* task id -> what the upstream answers to its detail request
    mainPc,         \* where main() and filter_tasks_by_date are
    session,        \* the aiohttp.ClientSession: "none", "open", "closed"
    listCalls,      \* listing requests issued
    detailCalls,    \* detail requests issued
    task_ids,       \* the listed task ids, in listing order
    pc,             \* index -> where process_task(task_id, index - 1) is
    results,        \* index -> what process_task returned, gathered by position
    semaphore,      \* [value, waiters]: the asyncio.Semaphore
    progress,       \* the calls of progress_bar.progress: <<index + 1, total_tasks>>
    bar,            \* the progress bar: "none", "shown", "emptied"
    stats,          \* the calls of stats_container.metric
    errors,         \* the calls of st.error
    output,         \* what filter_tasks_by_date returned
    channel,        \* what main() shows as the result
    previous        \* what the run before this one returned, if there was one

inputs == <<project_id, from_date, to_date, listResponse, upstream>>
vars == <<project_id, from_date, to_date, listResponse, upstream, mainPc, session,
          listCalls, detailCalls, task_ids, pc, results, semaphore, progress, bar,
          stats, errors, output, channel, previous>>

total_tasks == Len(task_ids)
Indexes == 1..Len(task_ids)

Pending == [kind |-> "pending"]
Unset == [kind |-> "unset", list |-> <<>>]
None == [kind |-> "none", list |-> <<>>]
List(l) == [kind |-> "list", list |-> l]

\* the state after construction: the form is filled in, nothing has run
Start ==
    /\ mainPc = "form"
    /\ session = "none"
    /\ listCalls = 0
    /\ detailCalls = 0
    /\ task_ids = <<>>
    /\ pc = <<>>
    /\ results = <<>>
    /\ semaphore = [value |-> 0, waiters |-> <<>>]
    /\ progress = <<>>
    /\ bar = "none"
    /\ stats = <<>>
    /\ errors = <<>>
    /\ output = Unset
    /\ channel = <<>>

ProjectOf(text) == IF IsIntText(text) THEN IntOfText(text) ELSE 0

\* every input, every listing of at most MaxTasks tasks, every answer per task;
\* the answers do not vary for the inputs that main rejects, which never ask
\* for them
InitNarrow ==
    /\ project_id \in ProjectIdInputs
    /\ from_date \in Days
    /\ to_date \in Days
    /\ listResponse \in ListResponses(MaxTasks)
    /\ \E f \in [1..Len(listResponse.features) ->
                    IF IsIntText(project_id) /\ from_date <= to_date
                    THEN Answers ELSE {GoodAnswer}] :
          upstream = [t \in 1..Len(listResponse.features) |->
                        DetailResponse(ProjectOf(project_id), t, f[t])]
    /\ Start

\* listings of at most MaxTasks tasks, by descending task id, whose answers
\* differ in the fields they have
InitFields ==
    /\ project_id = <<"2", "4", "2", "2", "9">>
    /\ from_date = 2
    /\ to_date = 2
    /\ \E n \in 1..MaxTasks :
          /\ listResponse = [status |-> "ok", json |-> "collection",
                             features |-> [i \in 1..n |-> n + 1 - i]]
          /\ \E f \in [1..n -> FieldAnswers] :
                upstream = [t \in 1..n |-> DetailResponse(ProjectOf(project_id), t, f[t])]
    /\ Start

\* listings of WideTasks tasks, more than the semaphore has slots, of which at
\* most one, the first or the last, is answered with a timestamp that does not
\* parse
InitWide ==
    /\ project_id \in ProjectIdInputs
    /\ from_date = 2
    /\ to_date = 2
    /\ listResponse \in WideListResponses
    /\ \E odd \in {0, 1, Len(listResponse.features)} :
          upstream = [t \in 1..Len(listResponse.features) |->
                        DetailResponse(ProjectOf(project_id), t,
                                       IF t = odd THEN OddAnswer ELSE GoodAnswer)]
    /\ Start

\* the runs of few tasks with every kind of timestamp, those with every kind
\* of field, and the runs of more tasks than the semaphore has slots
Init == (InitNarrow \/ InitFields \/ InitWide) /\ previous = Unset

(***************************************************************************)
(* asyncio.Semaphore.  S is [value, waiters, pc, woke]: a waiter whose      *)
(* future has been given the slot is "granted" until it runs again.         *)
(***************************************************************************)
\* variant of Locked: the value of the semaphore is not looked at
LockedByWaiters(S) == S.waiters # <<>>

\* Semaphore.locked
Locked(S) == S.value = 0 \/ S.waiters # <<>>

\* Semaphore._wake_up_next: the first waiter whose future is not done gets a slot
WakeUpNext(S) ==
    LET cand == {k \in 1..Len(S.waiters) : S.pc[S.waiters[k]] = "waiting"}
    IN  IF cand = {} THEN [S EXCEPT !.woke = FALSE]
        ELSE LET k == CHOOSE k \in cand : \A j \in cand : k <= j
             IN  [S EXCEPT !.value = @ - 1, !.pc[S.waiters[k]] = "granted",
                           !.woke = TRUE]

\* Semaphore.release
Release(S) == WakeUpNext([S EXCEPT !.value = @ + 1])

\* the end of Semaphore.acquire for a woken waiter: it leaves the queue and
\* hands out the slots that are free
RECURSIVE WakeWhile(_)
WakeWhile(S) ==
    IF S.value > 0
    THEN LET r == WakeUpNext(S) IN IF r.woke THEN WakeWhile(r) ELSE S
    ELSE S

Without(seq, i) == SelectSeq(seq, LAMBDA x : x # i)

SemState == [value |-> semaphore.value, waiters |-> semaphore.waiters,
             pc |-> pc, woke |-> FALSE]

(***************************************************************************)
(* process_task.                                                            *)
(***************************************************************************)
Commit(S) ==
    /\ pc' = S.pc
    /\ semaphore' = [value |-> S.value, waiters |-> S.waiters]

\* variant of Gathered: the outcomes are collected in the order of completion
GatheredByCompletion(tasks, i, outcome) ==
    LET k == CHOOSE k \in 1..Len(tasks) :
                 /\ tasks[k].kind = "pending"
                 /\ \A j \in 1..(k - 1) : tasks[j].kind # "pending"
    IN  [tasks EXCEPT ![k] = outcome]

\* gather keeps the outcome of the i-th awaitable at position i
Gathered(tasks, i, outcome) == [tasks EXCEPT ![i] = outcome]

\* process_task(i) ends with the outcome and leaves "async with semaphore";
\* gather collects the outcome unless it has raised already
Exit(i, S, outcome) ==
    /\ results' = IF mainPc = "gathering" THEN Gathered(results, i, outcome)
                  ELSE results
    /\ Commit(Release([S EXCEPT
                         !.pc[i] = IF outcome.kind = "raise" THEN "raised" ELSE "done"]))

\* variant of ProgressValue: (index + 2) / total_tasks
ProgressValueNext(i, total) == <<i + 1, total>>

\* (index + 1) / total_tasks, kept as the fraction's two terms; i is index + 1
ProgressValue(i, total) == <<i, total>>

\* lines 50-51 for the task that has just got its slot: the progress, then the
\* request; on a closed session the request raises at once, which
\* fetch_task_details turns into None
EnterBody(i, S) ==
    /\ progress' = Append(progress, ProgressValue(i, total_tasks))
    /\ IF session = "open"
       THEN /\ detailCalls' = detailCalls + 1
            /\ Commit([S EXCEPT !.pc[i] = "fetching"])
            /\ UNCHANGED results
       ELSE /\ UNCHANGED detailCalls
            /\ Exit(i, S, TaskOutcome(NoDetail, from_date, to_date))

Running == mainPc \in {"gathering", "aborting"}

\* the first step of process_task(i): the tasks start in the order gather
\* created them; the semaphore is taken if it is free, else the task queues
TaskStart(i) ==
    /\ Running
    /\ pc[i] = "new"
    /\ \A j \in 1..(i - 1) : pc[j] # "new"
    /\ IF ~Locked(SemState)
       THEN EnterBody(i, [SemState EXCEPT !.value = @ - 1])
       ELSE /\ Commit([SemState EXCEPT !.waiters = Append(@, i), !.pc[i] = "waiting"])
            /\ UNCHANGED <<progress, detailCalls, results>>
    /\ UNCHANGED <<inputs, previous, mainPc, session, listCalls, task_ids, bar, stats, errors,
                   output, channel>>

\* a waiter that was given a slot runs again; the loop runs the woken waiters
\* in the order in which their futures were set, which is the order of the queue
TaskResume(i) ==
    /\ Running
    /\ pc[i] = "granted"
    /\ semaphore.waiters[1] = i
    /\ EnterBody(i, WakeWhile([SemState EXCEPT !.waiters = Without(@, i)]))
    /\ UNCHANGED <<inputs, previous, mainPc, session, listCalls, task_ids, bar, stats, errors,
                   output, channel>>

\* what a request of task i can resolve to: the upstream's answer, or, once the
\* session is closed, the failure of its connection
Resolutions(i) ==
    IF session = "open" THEN {upstream[task_ids[i]]}
    ELSE {upstream[task_ids[i]], FailedResponse}

\* the detail request of task i resolves; lines 53-65 follow without suspending.
\* The tasks that gather created are all in the ready queue of the loop when
\* main suspends, so each has taken its first step before the loop polls the
\* network for the first time
FetchResolve(i) ==
    /\ Running
    /\ pc[i] = "fetching"
    /\ \A j \in Indexes : pc[j] # "new"
    /\ \E response \in Resolutions(i) :
          Exit(i, SemState, TaskOutcome(fetch_task_details(response), from_date, to_date))
    /\ UNCHANGED <<inputs, previous, mainPc, session, listCalls, detailCalls, task_ids, progress,
                   bar, stats, errors, output, channel>>

Finished(i) == pc[i] \in {"done", "raised", "cancelled"}

\* a task that asyncio.run cancels: CancelledError is thrown where it waits, and
\* "async with" gives back the slot it holds
Cancelled(S, i) ==
    [S EXCEPT !.pc[i] = "cancelled",
              !.waiters = Without(@, i),
              !.value = IF S.pc[i] \in {"granted", "fetching"} THEN @ + 1 ELSE @]

RECURSIVE CancelFrom(_, _)
CancelFrom(S, i) ==
    IF i > Len(S.pc) THEN S
    ELSE CancelFrom(IF Finished(i) THEN S ELSE Cancelled(S, i), i + 1)

(***************************************************************************)
(* main, fetch_project_tasks and filter_tasks_by_date.                      *)
(***************************************************************************)
\* variant of ValidRange: the dates are not compared
ValidRangeAny(from, to) == TRUE

ValidProjectId(text) == IsIntText(text)
ValidRange(from, to) == ~(from > to)

\* the click on "Filter Tasks", lines 97-112 and 33-34 up to the listing request
main ==
    /\ mainPc = "form"
    /\ IF ~ValidProjectId(project_id)
       THEN /\ errors' = Append(errors, "Project ID must be a number")
            /\ mainPc' = "rejected"
            /\ UNCHANGED <<bar, session, listCalls>>
       ELSE IF ~ValidRange(from_date, to_date)
       THEN /\ errors' = Append(errors, "From date cannot be later than To date")
            /\ mainPc' = "rejected"
            /\ UNCHANGED <<bar, session, listCalls>>
       ELSE /\ bar' = "shown"
            /\ session' = "open"
            /\ listCalls' = listCalls + 1
            /\ mainPc' = "listing"
            /\ UNCHANGED errors
    /\ UNCHANGED <<inputs, previous, detailCalls, task_ids, pc, results, semaphore, progress,
                   stats, output, channel>>

\* variant of fetch_project_tasks: the exception is swallowed without st.error
fetch_project_tasks_silent(response) ==
    IF response.status = "ok"
    THEN [kind |-> "json", json |-> response.json, features |-> response.features,
          error |-> <<>>]
    ELSE [kind |-> "none", json |-> "none", features |-> <<>>, error |-> <<>>]

\* fetch_project_tasks: the JSON body, or st.error and None on any exception
fetch_project_tasks(response) ==
    IF response.status = "ok"
    THEN [kind |-> "json", json |-> response.json, features |-> response.features,
          error |-> <<>>]
    ELSE [kind |-> "none", json |-> "none", features |-> <<>>,
          error |-> <<"Error fetching project tasks">>]

\* "not tasks_data": None, null and {} are false
NoTasksData(tasks_data) == tasks_data.kind = "none" \/ tasks_data.json = "null"

Metric(label, value) == [label |-> label, value |-> value]

\* the listing request resolves: lines 34-46 and the creation of the tasks by
\* gather, or the return of None, or the KeyError of line 38, which leaves
\* "async with session" and asyncio.run with no task to cancel
filter_tasks_by_date ==
    /\ mainPc = "listing"
    /\ LET tasks_data == fetch_project_tasks(listResponse)
       IN  /\ errors' = errors \o tasks_data.error
           /\ IF NoTasksData(tasks_data)
              THEN /\ output' = None
                   /\ session' = "closed"
                   /\ mainPc' = "returned"
                   /\ UNCHANGED <<task_ids, stats, semaphore, pc, results>>
              ELSE IF tasks_data.json # "collection"
              THEN /\ session' = "closed"
                   /\ mainPc' = "crashed"
                   /\ UNCHANGED <<output, task_ids, stats, semaphore, pc, results>>
              ELSE /\ task_ids' = tasks_data.features
                   /\ stats' = Append(stats, Metric("Total Tasks Found",
                                                    Len(tasks_data.features)))
                   /\ semaphore' = [value |-> SemaphoreSlots, waiters |-> <<>>]
                   /\ pc' = [i \in 1..Len(tasks_data.features) |-> "new"]
                   /\ results' = [i \in 1..Len(tasks_data.features) |-> Pending]
                   /\ mainPc' = "gathering"
                   /\ UNCHANGED <<output, session>>
    /\ UNCHANGED <<inputs, previous, listCalls, detailCalls, progress, bar, channel>>

\* line 68
Filtered(tasks) ==
    LET kept == SelectSeq(tasks, LAMBDA r : r.kind = "record")
    IN  [k \in 1..Len(kept) |-> kept[k].rec]

\* variant of LateMetrics: the count is that of the gathered outcomes
LateMetricsOfAll(tasks) ==
    << Metric("Fetch Time", 0), Metric("Filtered Tasks", Len(tasks)) >>

\* lines 69-72: the two metrics that follow the gather; the elapsed time is
\* not modelled
LateMetrics(tasks) ==
    << Metric("Fetch Time", 0), Metric("Filtered Tasks", Len(Filtered(tasks))) >>

\* variant of Returned: the records are added to a list that outlives the run
ReturnedAppended(tasks) == List(previous.list \o Filtered(tasks))

\* lines 68 and 74: the list that filter_tasks_by_date binds and returns
Returned(tasks) == List(Filtered(tasks))

\* variant of GatherDone: the wait ends with the first task that returns
GatherFirstDone ==
    /\ mainPc = "gathering"
    /\ \E i \in Indexes : pc[i] = "done"
    /\ stats' = stats \o LateMetrics(results)
    /\ output' = Returned(results)
    /\ session' = "closed"
    /\ mainPc' = "returned"
    /\ UNCHANGED <<inputs, previous, listCalls, detailCalls, task_ids, pc, results, semaphore,
                   progress, bar, errors, channel>>

\* gather returns once every task has returned: lines 67-74
GatherDone ==
    /\ mainPc = "gathering"
    /\ \A i \in Indexes : pc[i] = "done"
    /\ stats' = stats \o LateMetrics(results)
    /\ output' = Returned(results)
    /\ session' = "closed"
    /\ mainPc' = "returned"
    /\ UNCHANGED <<inputs, previous, listCalls, detailCalls, task_ids, pc, results, semaphore,
                   progress, bar, errors, channel>>

\* gather raises the exception of the first task that raised, so that no list
\* of results is ever assigned to "tasks": the exception leaves "async with
\* session", which closes the session
GatherRaise ==
    /\ mainPc = "gathering"
    /\ \E i \in Indexes : pc[i] = "raised"
    /\ results' = [i \in Indexes |-> Pending]
    /\ session' = "closed"
    /\ mainPc' = "aborting"
    /\ UNCHANGED <<inputs, previous, listCalls, detailCalls, task_ids, pc, semaphore,
                   progress, bar, stats, errors, output, channel>>

\* asyncio.run cancels the tasks that are left and runs the loop until each of
\* them has ended; none of their futures is woken once they are cancelled
CancelAll ==
    /\ mainPc = "aborting"
    /\ mainPc' = "cancelling"
    /\ Commit(CancelFrom(SemState, 1))
    /\ UNCHANGED <<inputs, previous, session, listCalls, detailCalls, task_ids, results,
                   progress, bar, stats, errors, output, channel>>

\* asyncio.run raises the exception out of main
RunCrash ==
    /\ mainPc = "cancelling"
    /\ \A i \in Indexes : Finished(i)
    /\ mainPc' = "crashed"
    /\ UNCHANGED <<inputs, previous, session, listCalls, detailCalls, task_ids, pc, results,
                   semaphore, progress, bar, stats, errors, output, channel>>

\* variant of HasRows: only None is false
HasRowsNotNone(out) == out.kind = "list"

\* truth value of filtered_tasks: None and [] are false
HasRows(out) == out.kind = "list" /\ out.list # <<>>

\* lines 113-143
Present ==
    /\ mainPc = "returned"
    /\ bar' = "emptied"
    /\ channel' = Append(channel, IF HasRows(output) THEN "dataframe" ELSE "warning")
    /\ mainPc' = "done"
    /\ UNCHANGED <<inputs, previous, session, listCalls, detailCalls, task_ids, pc, results,
                   semaphore, progress, stats, errors, output>>

\* the button is clicked again with the same inputs: Streamlit runs main()
\* anew, and every name of main and of filter_tasks_by_date is bound anew
Rerun ==
    /\ mainPc = "done"
    /\ previous = Unset
    /\ previous' = output
    /\ mainPc' = "form"
    /\ session' = "none"
    /\ listCalls' = 0
    /\ detailCalls' = 0
    /\ task_ids' = <<>>
    /\ pc' = <<>>
    /\ results' = <<>>
    /\ semaphore' = [value |-> 0, waiters |-> <<>>]
    /\ progress' = <<>>
    /\ bar' = "none"
    /\ stats' = <<>>
    /\ errors' = <<>>
    /\ output' = Unset
    /\ channel' = <<>>
    /\ UNCHANGED inputs

Next ==
    \/ main
    \/ filter_tasks_by_date
    \/ \E i \in Indexes : TaskStart(i)
    \/ \E i \in Indexes : TaskResume(i)
    \/ \E i \in Indexes : FetchResolve(i)
    \/ GatherDone
    \/ GatherRaise
    \/ CancelAll
    \/ RunCrash
    \/ Present
    \/ Rerun

Spec == Init /\ [][Next]_vars

(***************************************************************************)
(* Vocabulary of the properties, stated on the inputs and on what the user  *)
(* sees.                                                                    *)
(***************************************************************************)
Listed == {task_ids[i] : i \in Indexes}

\* the detail request of task t fails: network error or non-success status
FetchFails(t) == upstream[t].status = "error"

LastUpdatedText(t) == upstream[t].body.lastUpdated

\* the detail of t was fetched and carries a non-empty lastUpdated
HasText(t) ==
    /\ upstream[t].status = "ok"
    /\ "lastUpdated" \in upstream[t].body.keys
    /\ LastUpdatedText(t).shape # "empty"

\* the upstream format, trailing Z or not: a timestamp with a numeric offset
WellFormed(s) == s.shape = "iso" /\ s.offset \in Offsets

Unparseable(t) == HasText(t) /\ ~WellFormed(LastUpdatedText(t))

\* the date written in the timestamp of t lies in the range
Matches(t) ==
    /\ HasText(t)
    /\ WellFormed(LastUpdatedText(t))
    /\ from_date <= LastUpdatedText(t).date
    /\ LastUpdatedText(t).date <= to_date

NotAnInteger(text) == text = <<>> \/ \E k \in 1..Len(text) : text[k] \notin Digits

ValidInputs == ~NotAnInteger(project_id) /\ from_date <= to_date

Outstanding == {i \in Indexes : pc[i] = "fetching"}

Aborted == mainPc \in {"aborting", "cancelling", "crashed"}

Completed == mainPc \in {"returned", "done"} /\ output.kind = "list"

OutputIds == {output.list[k].taskId : k \in 1..Len(output.list)}

StatLabels == {stats[k].label : k \in 1..Len(stats)}

\* the index at which task id t was listed
Position(t) == CHOOSE i \in Indexes : task_ids[i] = t

\* the detail of t is delivered with success status and lacks a field that
\* process_task reads
LacksField(t) ==
    /\ upstream[t].status = "ok"
    /\ upstream[t].body.keys # {}
    /\ \/ ~({"lastUpdated", "taskId", "projectId", "taskStatus"}
               \subseteq upstream[t].body.keys)
       \/ /\ "taskHistory" \in upstream[t].body.keys
          /\ upstream[t].body.taskHistory # <<>>
          /\ "actionBy" \notin upstream[t].body.taskHistory[1].keys

\* what the result channel of the run has received
Signals ==
    {s \in {"dataframe", "warning"} : \E k \in 1..Len(channel) : channel[k] = s}
      \cup (IF errors # <<>> THEN {"error"} ELSE {})

StatAt(label) == {k \in 1..Len(stats) : stats[k].label = label}

RecordSet(l) == {l[k] : k \in 1..Len(l)}

\* the emissions of the progress value 1.0
FullProgress == {k \in 1..Len(progress) : progress[k][1] = progress[k][2]}

(***************************************************************************)
(* Properties.                                                              *)
(***************************************************************************)

\* C1: at no time do more than 10 per-task operations have an outstanding
\* detail request, also when more than 10 tasks are listed.
C1_AtMostTenOutstanding == Cardinality(Outstanding) <= SemaphoreSlots

C1_Witness ==
    /\ Cardinality(Outstanding) = SemaphoreSlots
    /\ \E i \in Indexes : pc[i] = "waiting"

\* C2: when the listing request fails, no detail request is ever issued, the
\* listing is requested once, the error is shown and the run returns no record.
C2_ListingFailureAborts ==
    listResponse.status = "error" =>
        /\ detailCalls = 0
        /\ listCalls <= 1
        /\ task_ids = <<>>
        /\ mainPc \in {"form", "rejected", "listing", "returned", "done"}
        /\ mainPc \in {"returned", "done"} =>
              /\ errors = <<"Error fetching project tasks">>
              /\ output = None

C2_Witness ==
    /\ listResponse.status = "error"
    /\ listCalls = 1
    /\ mainPc = "done"

\* C3: a detail request that fails never makes its task raise and never aborts
\* the run (a run is aborted only by a task whose detail was fetched), and a
\* run that completes with failed requests returns exactly the records of the
\* other tasks whose date is in range.
C3_FetchFailureIsSoft ==
    /\ \A i \in Indexes :
          FetchFails(task_ids[i]) =>
              pc[i] # "raised" /\ results[i].kind \in {"pending", "none"}
    /\ (Aborted /\ listResponse.json = "collection") =>
          \E i \in Indexes : ~FetchFails(task_ids[i]) /\ pc[i] = "raised"
    /\ (Completed /\ \E t \in Listed : FetchFails(t)) =>
          /\ OutputIds = {t \in Listed : Matches(t)}
          /\ Len(output.list) = Cardinality({t \in Listed : Matches(t)})

C3_Witness ==
    /\ mainPc = "done"
    /\ \E t \in Listed : FetchFails(t)
    /\ \E t \in Listed : Matches(t)
    /\ output.kind = "list" /\ Len(output.list) = 1

\* C4: a task whose fetched detail carries a non-empty lastUpdated that does
\* not parse (such as one ending in Z with no numeric offset) does not abort
\* the run.
C4_UnparseableDoesNotAbort ==
    (\E t \in Listed : Unparseable(t)) => ~Aborted

\* C5: after a completed run the output has a record for task t exactly when
\* the detail of t was fetched and the date written in its lastUpdated, taken
\* in its own offset, lies in [from_date, to_date]; the records are as many as
\* these tasks and each is of a listed task.
C5_RecordIffInRange ==
    Completed =>
        /\ \A t \in Listed : (t \in OutputIds) <=> Matches(t)
        /\ Len(output.list) = Cardinality({t \in Listed : Matches(t)})
        /\ OutputIds \subseteq Listed

C5_Witness ==
    /\ Completed
    /\ from_date < to_date
    /\ \E k \in 1..Len(output.list) :
          output.list[k].lastUpdated = Iso(from_date, "00:00:00.000000", "+05:30", 0)
    /\ \E k \in 1..Len(output.list) :
          output.list[k].lastUpdated = Iso(to_date, "23:59:59.999999", "-05:00", 0)

C7_InvalidInputNeverStarts ==
    (NotAnInteger(project_id) \/ from_date > to_date) =>
        /\ mainPc \in {"form", "rejected"}
        /\ session = "none"
        /\ listCalls = 0
        /\ detailCalls = 0
        /\ progress = <<>>
        /\ bar = "none"
        /\ stats = <<>>
        /\ mainPc = "rejected" => Len(errors) = 1

C7_Witness ==
    /\ mainPc = "rejected"
    /\ ~NotAnInteger(project_id)
    /\ from_date > to_date
    /\ errors = <<"From date cannot be later than To date">>

\* C8: a listing that succeeds with no feature emits "Total Tasks Found" 0,
\* issues no detail request and no progress, returns the empty list without
\* any error, and main shows the "no tasks found" warning.
C8_EmptyListing ==
    (/\ ValidInputs
     /\ listResponse.status = "ok"
     /\ listResponse.json = "collection"
     /\ listResponse.features = <<>>) =>
        /\ detailCalls = 0
        /\ progress = <<>>
        /\ errors = <<>>
        /\ ~Aborted
        /\ mainPc \in {"gathering", "returned", "done"} =>
              stats[1] = Metric("Total Tasks Found", 0)
        /\ mainPc \in {"returned", "done"} => output = List(<<>>)
        /\ mainPc = "done" => channel = <<"warning">>

C8_Witness ==
    /\ ValidInputs
    /\ listResponse.status = "ok"
    /\ listResponse.json = "collection"
    /\ listResponse.features = <<>>
    /\ mainPc = "done"
    /\ channel = <<"warning">>

\* C9: the list is returned and "Fetch Time" and "Filtered Tasks" are emitted
\* only when every per-task operation has returned.
C9_NoPartialResult ==
    (output.kind = "list" \/ StatLabels \cap {"Fetch Time", "Filtered Tasks"} # {}) =>
        \A i \in Indexes : pc[i] = "done"

C9_Witness ==
    /\ mainPc = "returned"
    /\ output.kind = "list"
    /\ total_tasks > SemaphoreSlots
    /\ "Filtered Tasks" \in StatLabels

\* C10: a per-task operation blocked on acquiring a slot leaves the acquire
\* only with a slot, to run its body: it is never ended while it waits for the
\* semaphore or for its turn to run with the slot it was handed.
C10_BlockedAcquires ==
    [][\A i \in Indexes :
          pc[i] \in {"waiting", "granted"} =>
              pc'[i] \in {"waiting", "granted", "fetching", "done", "raised"}]_vars

\* C11: a run that main has presented has put exactly one signal on the
\* result channel: the record list, the "no matching tasks" warning, or an
\* error; a listing failure does not show the warning next to its error.
C11_ExactlyOneSignal == mainPc = "done" => Cardinality(Signals) = 1

\* C12: when the listing answers with success status and a malformed payload
\* (null or empty body, no "features", a feature without properties.taskId),
\* the run ends with an error reported and no data, and not by an exception.
C12_MalformedListingReported ==
    (/\ listResponse.status = "ok"
     /\ listResponse.json \in MalformedListings
     /\ mainPc \in {"returned", "done", "crashed"}) =>
        /\ errors # <<>>
        /\ output = None
        /\ mainPc # "crashed"

\* C13: with valid inputs and a listing that succeeded, a detail that lacks a
\* required field does not stop the run (no listed task has an unparseable
\* timestamp, the case of C4), and the run returns the records of the tasks
\* that match and have their fields.
C13_MissingFieldIsAbsorbed ==
    (/\ ValidInputs
     /\ listResponse.json = "collection"
     /\ \A t \in Listed : ~Unparseable(t)) =>
        /\ ~Aborted
        /\ Completed => OutputIds = {t \in Listed : Matches(t) /\ ~LacksField(t)}

\* C14: a second run with the same inputs against the same upstream returns
\* what the first returned: None both times, or lists that hold the same
\* records, as many of them, whatever the interleavings of the two runs.
C14_SecondRunSameSet ==
    (mainPc \in {"returned", "done"} /\ previous # Unset) =>
        /\ output.kind = previous.kind
        /\ RecordSet(output.list) = RecordSet(previous.list)
        /\ Len(output.list) = Len(previous.list)

C14_Witness ==
    /\ mainPc = "done"
    /\ previous.kind = "list"
    /\ Len(previous.list) = 1
    /\ total_tasks > 1
    /\ output.kind = "list"

\* C15: every record of the output is that of a listed task: taskId,
\* projectId, taskStatus and lastUpdated are those of its detail, and
\* lastUpdatedBy is "" when the detail has no taskHistory or an empty one,
\* else the actionBy of the first entry of taskHistory.
C15_RecordCopiesDetail ==
    \A k \in 1..Len(output.list) :
        \E t \in Listed :
            /\ output.list[k].taskId = upstream[t].body.taskId
            /\ output.list[k].projectId = upstream[t].body.projectId
            /\ output.list[k].taskStatus = upstream[t].body.taskStatus
            /\ output.list[k].lastUpdated = upstream[t].body.lastUpdated
            /\ output.list[k].lastUpdatedBy =
                  IF \/ "taskHistory" \notin upstream[t].body.keys
                     \/ upstream[t].body.taskHistory = <<>>
                  THEN ""
                  ELSE upstream[t].body.taskHistory[1].actionBy

C15_Witness ==
    /\ Completed
    /\ \E k \in 1..Len(output.list) : output.list[k].lastUpdatedBy = ""
    /\ \E k \in 1..Len(output.list) :
          /\ output.list[k].lastUpdatedBy = "bob"
          /\ Len(upstream[output.list[k].taskId].body.taskHistory) > 1

\* C16: the outcomes are gathered at the position of their task, and of any
\* two records of the returned list the one listed earlier comes first,
\* whatever the order in which the fetches completed.
C16_ListingOrder ==
    /\ \A i \in Indexes :
          (i <= Len(results) /\ results[i].kind = "record") =>
              results[i].rec.taskId = task_ids[i]
    /\ \A k, l \in 1..Len(output.list) :
          k < l => Position(output.list[k].taskId) < Position(output.list[l].taskId)

C16_Witness ==
    /\ Completed
    /\ Len(output.list) > 1
    /\ output.list[1].taskId > output.list[2].taskId

\* C17: no metric is emitted twice; once the listing of a feature collection
\* is known, and so before any detail request, the first metric is the total
\* of the listed tasks; the elapsed time and the filtered count come after it
\* and only when every task has returned; the filtered count is the length of
\* the returned list and at most the total.
C17_StatsProtocol ==
    /\ \A l \in StatLabels : Cardinality(StatAt(l)) = 1
    /\ (mainPc \in {"gathering", "returned", "done"} /\ output # None) =>
          /\ stats # <<>>
          /\ stats[1] = Metric("Total Tasks Found", total_tasks)
    /\ detailCalls > 0 => StatAt("Total Tasks Found") = {1}
    /\ \A k \in StatAt("Fetch Time") \cup StatAt("Filtered Tasks") :
          /\ k > 1
          /\ StatAt("Total Tasks Found") = {1}
          /\ \A i \in Indexes : pc[i] = "done"
    /\ \A k \in StatAt("Filtered Tasks") :
          /\ output.kind = "list"
          /\ stats[k].value = Len(output.list)
          /\ stats[k].value <= stats[1].value

C17_Witness ==
    /\ Completed
    /\ Len(stats) = 3
    /\ Len(output.list) > 0
    /\ Len(output.list) < total_tasks

\* C18: every progress value lies in (0, 1], and a run of at least one task
\* that has ended has emitted the value 1.0 last.
C18_ProgressEndsFull ==
    /\ \A k \in 1..Len(progress) :
          0 < progress[k][1] /\ progress[k][1] <= progress[k][2]
    /\ (mainPc \in {"done", "crashed"} /\ total_tasks >= 1) =>
          /\ progress # <<>>
          /\ progress[Len(progress)] = <<total_tasks, total_tasks>>

\* C19: once the session of the run is released, no per-task operation waits
\* for a slot, holds a slot or has a detail request outstanding.
C19_SessionOutlivesTasks ==
    session = "closed" =>
        \A i \in Indexes : pc[i] \notin {"waiting", "granted", "fetching"}

====
